---------------------------- MODULE Spec2Model ----------------------------
(***************************************************************************)
(* Student-course enrollment: the three in-memory repositories, the       *)
(* enrollment service (enroll, calculate_gpa) and the calls a harness      *)
(* makes on them.  Grades are floats in the source; here a grade is an     *)
(* integer number of half grade points (7 is 3.5) and a GPA is the exact   *)
(* quotient total_points / total_credits kept as a fraction in lowest      *)
(* terms, in the same unit.  A student's name and email and a course's     *)
(* name are carried by no operation and are left out of the records.       *)
(***************************************************************************)
EXTENDS Integers, Sequences, FiniteSets, TLC

(* ------------------------------ bounds -------------------------------- *)

\* The enrollment store holds at most this many records.
MaxEnrollments == 2

\* The max_credits the students are created with.
MaxCredits == 3

StudentIds == {"S001", "S002"}

CourseIds == {"C001", "C002"}

\* max_credits of the students the harness creates.
MaxCreditsChoices == {MaxCredits}

\* Credit weights of the courses the harness creates (positive integers).
CreditChoices == {1, 2}

\* Grades set_grade is called with, in half grade points: 3.5.
GradeChoices == {7}

VARIABLES
    students,       \* StudentRepository.students: id -> Student
    courses,        \* CourseRepository.courses: id -> Course
    enrollments,    \* EnrollmentRepository.enrollments: list of Enrollment
    last,           \* the last call made: its arguments, what it returned or
                    \* raised, and the repository methods it called, in order
    threads         \* the enroll calls in progress when two callers run
                    \* enroll step by step

vars == <<students, courses, enrollments, last, threads>>

(* ------------------------------ entities ------------------------------ *)

\* Python's None, as find_by_id and find_by_student_and_course return it.
None == [none |-> TRUE]

Student(id, max_credits) ==
    [id |-> id, current_credits |-> 0, max_credits |-> max_credits]

\* add_credits written with = in place of +=.
add_credits_assign(student, credits) ==
    [student EXCEPT !.current_credits = credits]

\* add_credits counting one credit for every course.
add_credits_by_one(student, credits) ==
    [student EXCEPT !.current_credits = @ + 1]

\* add_credits adding to the wrong field, max_credits.
add_credits_to_max(student, credits) ==
    [student EXCEPT !.max_credits = @ + credits]

add_credits(student, credits) ==
    [student EXCEPT !.current_credits = @ + credits]

Course(id, credits) == [id |-> id, credits |-> credits]

Enrollment(student_id, course_id) ==
    [student_id |-> student_id, course_id |-> course_id, grade |-> 0]

set_grade(enrollment, grade) == [enrollment EXCEPT !.grade = grade]

(* ---------------------------- repositories ---------------------------- *)

\* dict.setdefault(key, value): a key already there keeps its value.
DictPut_keep_existing(dict, key, value) ==
    [k \in DOMAIN dict \cup {key} |->
        IF k \in DOMAIN dict THEN dict[k] ELSE value]

\* dict[key] = value
DictPut(dict, key, value) ==
    [k \in DOMAIN dict \cup {key} |-> IF k = key THEN value ELSE dict[k]]

\* dict.get(key)
DictGet(dict, key) == IF key \in DOMAIN dict THEN dict[key] ELSE None

StudentRepository_save(store, student) == DictPut(store, student.id, student)

StudentRepository_find_by_id(store, id) == DictGet(store, id)

CourseRepository_save(store, course) == DictPut(store, course.id, course)

CourseRepository_find_by_id(store, id) == DictGet(store, id)

\* save with insert(0, enrollment) in place of append(enrollment).
EnrollmentRepository_save_at_front(store, enrollment) ==
    <<enrollment>> \o store

EnrollmentRepository_save(store, enrollment) == Append(store, enrollment)

EnrollmentRepository_find_by_student_id(store, student_id) ==
    SelectSeq(store, LAMBDA e : e.student_id = student_id)

\* The for loop without its early return: the last match wins.
find_from_last(store, i, student_id, course_id) ==
    LET J == {k \in i..Len(store) :
                 /\ store[k].student_id = student_id
                 /\ store[k].course_id = course_id}
    IN  IF J = {} THEN None
        ELSE store[CHOOSE k \in J : \A j \in J : j <= k]

\* The for loop of find_by_student_and_course, from position i on.
RECURSIVE find_from(_, _, _, _)
find_from(store, i, student_id, course_id) ==
    IF i > Len(store) THEN None
    ELSE IF store[i].student_id = student_id /\ store[i].course_id = course_id
         THEN store[i]
         ELSE find_from(store, i + 1, student_id, course_id)

EnrollmentRepository_find_by_student_and_course(store, student_id, course_id) ==
    find_from(store, 1, student_id, course_id)


(* ------------------------------ results ------------------------------- *)

\* What a call did: returned a value, or raised an exception whose message
\* is the sequence of the pieces of its f-string.
Return(value) == [kind |-> "return", exc |-> "", msg |-> <<>>, value |-> value]

Raise(exc, msg) == [kind |-> "raise", exc |-> exc, msg |-> msg, value |-> None]

StudentNotFound(student_id) ==
    Raise("ValueError", <<"Student not found with ID: ", student_id>>)

CourseNotFound(course_id) ==
    Raise("ValueError", <<"Course not found with ID: ", course_id>>)

CreditLimitExceeded ==
    Raise("RuntimeError", <<"Student exceeds maximum credit limit">>)

RECURSIVE GCD(_, _)
GCD(a, b) == IF b = 0 THEN a ELSE GCD(b, a % b)

\* The float p / c for c > 0: the quotient in lowest terms.
Quotient(p, c) == [num |-> p \div GCD(p, c), den |-> c \div GCD(p, c)]

\* The float 0.0.
Zero == [num |-> 0, den |-> 1]

(* --------------------------- EnrollmentService ------------------------ *)

\* The credit-limit test without the course's credits.
exceeds_credit_limit_ignoring_course(student, course) ==
    student.current_credits > student.max_credits

\* The credit-limit test one credit too generous.
exceeds_credit_limit_lax(student, course) ==
    student.current_credits + course.credits > student.max_credits + 1

\* The credit-limit test with >= in place of >.
exceeds_credit_limit_at_equality(student, course) ==
    student.current_credits + course.credits >= student.max_credits

\* Rule 3 of enroll: the credit-limit test.
exceeds_credit_limit(student, course) ==
    student.current_credits + course.credits > student.max_credits

\* A raise in enroll: the stores are as they were.
enroll_raise(result, calls) ==
    [students |-> students, enrollments |-> enrollments,
     result |-> result, calls |-> calls]

\* The end of enroll, the three rules passed: the enrollment is created and
\* saved, the credits are added, the student is saved.
enroll_create(student, course, calls) ==
    LET enrollment == Enrollment(student.id, course.id)
    IN  [students |->
             StudentRepository_save(
                 students, add_credits(student, course.credits)),
         enrollments |-> EnrollmentRepository_save(enrollments, enrollment),
         result |-> Return(enrollment),
         calls |-> calls \o <<"enrollment_repository.save",
                              "student_repository.save">>]

\* enroll with the enrollment saved before rule 3 is tested.
enroll_save_before_check(student_id, course_id) ==
    LET student == StudentRepository_find_by_id(students, student_id)
        course == CourseRepository_find_by_id(courses, course_id)
        found == <<"student_repository.find_by_id",
                   "course_repository.find_by_id">>
    IN  IF student = None
        THEN enroll_raise(StudentNotFound(student_id),
                          <<"student_repository.find_by_id">>)
        ELSE IF course = None
        THEN enroll_raise(CourseNotFound(course_id), found)
        ELSE IF exceeds_credit_limit(student, course)
        THEN [students |-> students,
              enrollments |->
                  EnrollmentRepository_save(
                      enrollments, Enrollment(student_id, course_id)),
              result |-> CreditLimitExceeded,
              calls |-> Append(found, "enrollment_repository.save")]
        ELSE enroll_create(student, course, found)

\* enroll with rule 2 before rule 1: the course is looked up first.
enroll_course_first(student_id, course_id) ==
    LET student == StudentRepository_find_by_id(students, student_id)
        course == CourseRepository_find_by_id(courses, course_id)
        found == <<"course_repository.find_by_id",
                   "student_repository.find_by_id">>
    IN  IF course = None
        THEN enroll_raise(CourseNotFound(course_id),
                          <<"course_repository.find_by_id">>)
        ELSE IF student = None
        THEN enroll_raise(StudentNotFound(student_id), found)
        ELSE IF exceeds_credit_limit(student, course)
        THEN enroll_raise(CreditLimitExceeded, found)
        ELSE enroll_create(student, course, found)

\* enroll turning away a student who is at max_credits before rule 2.
enroll_full_before_course(student_id, course_id) ==
    LET student == StudentRepository_find_by_id(students, student_id)
        course == CourseRepository_find_by_id(courses, course_id)
        found == <<"student_repository.find_by_id",
                   "course_repository.find_by_id">>
    IN  IF student = None
        THEN enroll_raise(StudentNotFound(student_id),
                          <<"student_repository.find_by_id">>)
        ELSE IF student.current_credits >= student.max_credits
        THEN enroll_raise(CreditLimitExceeded,
                          <<"student_repository.find_by_id">>)
        ELSE IF course = None
        THEN enroll_raise(CourseNotFound(course_id), found)
        ELSE IF exceeds_credit_limit(student, course)
        THEN enroll_raise(CreditLimitExceeded, found)
        ELSE enroll_create(student, course, found)

\* enroll with a fourth rule: a pair already enrolled is turned away.
enroll_reject_duplicate(student_id, course_id) ==
    LET student == StudentRepository_find_by_id(students, student_id)
        course == CourseRepository_find_by_id(courses, course_id)
        found == <<"student_repository.find_by_id",
                   "course_repository.find_by_id">>
    IN  IF student = None
        THEN enroll_raise(StudentNotFound(student_id),
                          <<"student_repository.find_by_id">>)
        ELSE IF course = None
        THEN enroll_raise(CourseNotFound(course_id), found)
        ELSE IF exceeds_credit_limit(student, course)
        THEN enroll_raise(CreditLimitExceeded, found)
        ELSE IF EnrollmentRepository_find_by_student_and_course(
                    enrollments, student_id, course_id) # None
        THEN enroll_raise(Raise("RuntimeError", <<"Student already enrolled">>),
                          Append(found,
                              "enrollment_repository.find_by_student_and_course"))
        ELSE enroll_create(student, course, found)

\* enroll(student_id, course_id) on the current stores: the stores it leaves,
\* what it returns or raises, and the repository calls it made.
enroll(student_id, course_id) ==
    LET student == StudentRepository_find_by_id(students, student_id)
        course == CourseRepository_find_by_id(courses, course_id)
        found == <<"student_repository.find_by_id",
                   "course_repository.find_by_id">>
    IN  IF student = None
        THEN enroll_raise(StudentNotFound(student_id),
                          <<"student_repository.find_by_id">>)
        ELSE IF course = None
        THEN enroll_raise(CourseNotFound(course_id), found)
        ELSE IF exceeds_credit_limit(student, course)
        THEN enroll_raise(CreditLimitExceeded, found)
        ELSE enroll_create(student, course, found)

\* The loop of calculate_gpa averaging the grades without their weights.
RECURSIVE gpa_loop_unweighted(_, _, _)
gpa_loop_unweighted(list, i, acc) ==
    IF i > Len(list) THEN acc
    ELSE LET course == CourseRepository_find_by_id(courses, list[i].course_id)
             looked == Append(acc.calls, "course_repository.find_by_id")
         IN IF course # None
            THEN gpa_loop_unweighted(list, i + 1,
                     [total_points |-> acc.total_points + list[i].grade,
                      total_credits |-> acc.total_credits + 1,
                      calls |-> looked])
            ELSE gpa_loop_unweighted(list, i + 1,
                                     [acc EXCEPT !.calls = looked])

\* The for loop of calculate_gpa from position i of the student's
\* enrollments on: the two totals and the course lookups made.
RECURSIVE gpa_loop(_, _, _)
gpa_loop(list, i, acc) ==
    IF i > Len(list) THEN acc
    ELSE LET course == CourseRepository_find_by_id(courses, list[i].course_id)
             looked == Append(acc.calls, "course_repository.find_by_id")
         IN IF course # None
            THEN gpa_loop(list, i + 1,
                     [total_points |->
                          acc.total_points + list[i].grade * course.credits,
                      total_credits |-> acc.total_credits + course.credits,
                      calls |-> looked])
            ELSE gpa_loop(list, i + 1, [acc EXCEPT !.calls = looked])

\* The last line of calculate_gpa without its test of total_credits.
gpa_result_unguarded(total_points, total_credits) ==
    IF total_credits = 0
    THEN Raise("ZeroDivisionError", <<"float division by zero">>)
    ELSE Return(Quotient(total_points, total_credits))

\* The last line of calculate_gpa.
gpa_result(total_points, total_credits) ==
    IF total_credits > 0
    THEN Return(Quotient(total_points, total_credits))
    ELSE Return(Zero)

\* calculate_gpa fetching the enrollments before it looks the student up.
calculate_gpa_enrollments_first(student_id) ==
    LET student == StudentRepository_find_by_id(students, student_id)
        list == EnrollmentRepository_find_by_student_id(enrollments, student_id)
        totals == gpa_loop(list, 1,
                      [total_points |-> 0, total_credits |-> 0,
                       calls |-> <<"enrollment_repository.find_by_student_id",
                                   "student_repository.find_by_id">>])
    IN  IF Len(list) = 0
        THEN [result |-> Return(Zero),
              calls |-> <<"enrollment_repository.find_by_student_id">>]
        ELSE IF student = None
        THEN [result |-> StudentNotFound(student_id),
              calls |-> <<"enrollment_repository.find_by_student_id",
                          "student_repository.find_by_id">>]
        ELSE [result |-> gpa_result(totals.total_points, totals.total_credits),
              calls |-> totals.calls]

\* calculate_gpa(student_id) on the current stores: what it returns or
\* raises, and the repository calls it made.
calculate_gpa(student_id) ==
    LET student == StudentRepository_find_by_id(students, student_id)
        list == EnrollmentRepository_find_by_student_id(enrollments, student_id)
        totals == gpa_loop(list, 1,
                      [total_points |-> 0, total_credits |-> 0,
                       calls |-> <<"student_repository.find_by_id",
                                   "enrollment_repository.find_by_student_id">>])
    IN  IF student = None
        THEN [result |-> StudentNotFound(student_id),
              calls |-> <<"student_repository.find_by_id">>]
        ELSE IF Len(list) = 0
        THEN [result |-> Return(Zero),
              calls |-> <<"student_repository.find_by_id",
                          "enrollment_repository.find_by_student_id">>]
        ELSE [result |-> gpa_result(totals.total_points, totals.total_credits),
              calls |-> totals.calls]

\* calculate_gpa weighting each grade in place (grade *= credits) before it
\* adds it up.
calculate_gpa_stores_weighting_in_place(student_id) ==
    [students |-> students,
     courses |-> courses,
     enrollments |->
         [i \in 1..Len(enrollments) |->
             IF /\ student_id \in DOMAIN students
                /\ enrollments[i].student_id = student_id
                /\ enrollments[i].course_id \in DOMAIN courses
             THEN [enrollments[i] EXCEPT
                      !.grade = @ * courses[enrollments[i].course_id].credits]
             ELSE enrollments[i]]]

\* The stores as calculate_gpa leaves them: it calls find methods only and
\* assigns to no field of what they return.
calculate_gpa_stores(student_id) ==
    [students |-> students, courses |-> courses, enrollments |-> enrollments]

(* ------------------------- EnrollmentController ----------------------- *)

\* f"{gpa:.2f}": the float's decimal expansion rounded to the nearest
\* hundredth, a tie going to the even one.  gpa is in half grade points, so
\* its value in hundredths is 50 * num / den.  A tie needs den = 4 when
\* den <= 6, and then the float holds the quotient exactly.
format_2f(gpa) ==
    LET n == 50 * gpa.num
        d == gpa.den
        floor == n \div d
        rem == n % d
        hundredths == IF 2 * rem < d THEN floor
                      ELSE IF 2 * rem > d THEN floor + 1
                      ELSE IF floor % 2 = 0 THEN floor ELSE floor + 1
    IN  <<ToString(hundredths \div 100), ".",
          ToString((hundredths % 100) \div 10), ToString(hundredths % 10)>>

\* f"SUCCESS: Student {student_id} enrolled in course {course_id}", in pieces.
SuccessString(student_id, course_id) ==
    <<"SUCCESS:", " Student ", student_id, " enrolled in course ", course_id>>

\* f"ERROR: {str(e)}", in pieces.
ErrorString(msg) == <<"ERROR:", " ">> \o msg

\* f"GPA for student {student_id}: {gpa:.2f}", in pieces.
GpaString(student_id, gpa) ==
    <<"GPA for student ", student_id, ":", " ">> \o format_2f(gpa)

\* enroll_student returning str(e) without the ERROR: in front.
enroll_student_bare_error(student_id, course_id) ==
    LET out == enroll(student_id, course_id)
    IN  [out EXCEPT
            !.result = IF out.result.kind = "return"
                       THEN Return(SuccessString(student_id, course_id))
                       ELSE Return(out.result.msg)]

\* enroll_student with except ValueError in place of except Exception.
enroll_student_value_errors_only(student_id, course_id) ==
    LET out == enroll(student_id, course_id)
    IN  [out EXCEPT
            !.result = IF out.result.kind = "return"
                       THEN Return(SuccessString(student_id, course_id))
                       ELSE IF out.result.exc = "ValueError"
                       THEN Return(ErrorString(out.result.msg))
                       ELSE out.result]

\* enroll_student(student_id, course_id): what enroll does to the stores, and
\* the string returned.
enroll_student(student_id, course_id) ==
    LET out == enroll(student_id, course_id)
    IN  [out EXCEPT
            !.result = IF out.result.kind = "return"
                       THEN Return(SuccessString(student_id, course_id))
                       ELSE Return(ErrorString(out.result.msg))]

\* get_student_gpa(student_id): the string returned.
get_student_gpa(student_id) ==
    LET out == calculate_gpa(student_id)
    IN  [out EXCEPT
            !.result = IF out.result.kind = "return"
                       THEN Return(GpaString(student_id, out.result.value))
                       ELSE Return(ErrorString(out.result.msg))]

(* ------------------------------- actions ------------------------------ *)

\* No caller is running enroll step by step.
NoThreads == [sync |-> FALSE, raced |-> FALSE, call |-> <<>>]

Call(op, student_id, course_id, result, calls) ==
    [op |-> op, student_id |-> student_id, course_id |-> course_id,
     result |-> result, calls |-> calls]

\* student_repository.save(Student(id, name, email, max_credits))
StudentSave(id, max_credits) ==
    /\ students' = StudentRepository_save(students, Student(id, max_credits))
    /\ last' = Call("student_repository.save", id, "",
                    Return(Student(id, max_credits)), <<>>)
    /\ UNCHANGED <<courses, enrollments, threads>>

\* course_repository.save(Course(id, name, credits))
CourseSave(id, credits) ==
    /\ courses' = CourseRepository_save(courses, Course(id, credits))
    /\ last' = Call("course_repository.save", "", id,
                    Return(Course(id, credits)), <<>>)
    /\ UNCHANGED <<students, enrollments, threads>>

\* enrollment_repository.save(Enrollment(student_id, course_id))
EnrollmentSave(student_id, course_id) ==
    /\ Len(enrollments) < MaxEnrollments
    /\ enrollments' = EnrollmentRepository_save(
                          enrollments, Enrollment(student_id, course_id))
    /\ last' = Call("enrollment_repository.save", student_id, course_id,
                    Return(Enrollment(student_id, course_id)), <<>>)
    /\ UNCHANGED <<students, courses, threads>>

\* set_grade(grade) on the i-th stored enrollment.
SetGrade(i, grade) ==
    /\ i \in 1..Len(enrollments)
    /\ enrollments' = [enrollments EXCEPT ![i] = set_grade(@, grade)]
    /\ last' = Call("set_grade", enrollments[i].student_id,
                    enrollments[i].course_id, Return(None), <<>>)
    /\ UNCHANGED <<students, courses, threads>>

\* enrollment_service.enroll(student_id, course_id)
Enroll(student_id, course_id) ==
    LET out == enroll(student_id, course_id)
    IN  /\ Len(out.enrollments) <= MaxEnrollments
        /\ students' = out.students
        /\ enrollments' = out.enrollments
        /\ last' = Call("enroll", student_id, course_id, out.result, out.calls)
        /\ UNCHANGED <<courses, threads>>

\* enrollment_service.calculate_gpa(student_id)
CalculateGpa(student_id) ==
    LET out == calculate_gpa(student_id)
        left == calculate_gpa_stores(student_id)
    IN  /\ last' = Call("calculate_gpa", student_id, "", out.result, out.calls)
        /\ students' = left.students
        /\ courses' = left.courses
        /\ enrollments' = left.enrollments
        /\ UNCHANGED threads

\* enrollment_controller.enroll_student(student_id, course_id)
EnrollStudent(student_id, course_id) ==
    LET out == enroll_student(student_id, course_id)
    IN  /\ Len(out.enrollments) <= MaxEnrollments
        /\ students' = out.students
        /\ enrollments' = out.enrollments
        /\ last' = Call("enroll_student", student_id, course_id,
                        out.result, out.calls)
        /\ UNCHANGED <<courses, threads>>

\* enrollment_controller.get_student_gpa(student_id)
GetStudentGpa(student_id) ==
    LET out == get_student_gpa(student_id)
        left == calculate_gpa_stores(student_id)
    IN  /\ last' = Call("get_student_gpa", student_id, "",
                        out.result, out.calls)
        /\ students' = left.students
        /\ courses' = left.courses
        /\ enrollments' = left.enrollments
        /\ UNCHANGED threads

\* The repositories as constructed: empty.
Init ==
    /\ students = <<>>
    /\ courses = <<>>
    /\ enrollments = <<>>
    /\ last = Call("init", "", "", Return(None), <<>>)
    /\ threads = NoThreads

Next ==
    \/ \E id \in StudentIds, m \in MaxCreditsChoices : StudentSave(id, m)
    \/ \E id \in CourseIds, c \in CreditChoices : CourseSave(id, c)
    \/ \E s \in StudentIds, c \in CourseIds : EnrollmentSave(s, c)
    \/ \E i \in 1..MaxEnrollments, g \in GradeChoices : SetGrade(i, g)
    \/ \E s \in StudentIds, c \in CourseIds : Enroll(s, c)
    \/ \E s \in StudentIds : CalculateGpa(s)

Spec == Init /\ [][Next]_vars

\* The student stores a harness can have set up: any of the students saved,
\* none enrolled yet.
StudentStores ==
    UNION {{[id \in D |-> Student(id, m[id])] : m \in [D -> MaxCreditsChoices]}
           : D \in SUBSET StudentIds}

\* The course stores a harness can have set up.
CourseStores ==
    UNION {{[id \in D |-> Course(id, c[id])] : c \in [D -> CreditChoices]}
           : D \in SUBSET CourseIds}

\* The stores set up, nothing enrolled: what the saves of Spec reach before
\* the first call of the service.
EngineInit ==
    /\ students \in StudentStores
    /\ courses \in CourseStores
    /\ enrollments = <<>>
    /\ last = Call("init", "", "", Return(None), <<>>)
    /\ threads = NoThreads

\* The calls of the service and of the controller, and the grading of an
\* enrollment; no repository is written to directly.
EngineNext ==
    \/ \E s \in StudentIds, c \in CourseIds : Enroll(s, c)
    \/ \E s \in StudentIds : CalculateGpa(s)
    \/ \E s \in StudentIds, c \in CourseIds : EnrollStudent(s, c)
    \/ \E s \in StudentIds : GetStudentGpa(s)
    \/ \E i \in 1..MaxEnrollments, g \in GradeChoices : SetGrade(i, g)

EngineSpec == EngineInit /\ [][EngineNext]_vars

(* ------------------- two callers, enroll step by step ----------------- *)

\* Two callers share the repositories and run enroll one step at a time:
\* student lookup, course lookup, credit test, enrollment save, credit
\* increment, student save.  The student a caller holds is the stored
\* object, so the test and the increment read the credits as they are at
\* that step.  With threads.sync a call begins only when no other call is
\* in progress: each enroll then runs as a whole.
Threads == {1, 2}

Idle(result) ==
    [pc |-> "idle", student_id |-> "", course_id |-> "", result |-> result]

\* The calls in progress.
Running == {t \in Threads : threads.call[t].pc # "idle"}

\* Thread t takes its call to step pc.
Goto(t, pc) == [threads EXCEPT !.call[t].pc = pc]

\* Thread t's call ends with result.
Finish(t, result) == [threads EXCEPT !.call[t] = Idle(result)]

\* Thread t calls enroll(student_id, course_id).
Begin(t, student_id, course_id) ==
    /\ threads.call[t].pc = "idle"
    /\ threads.sync => Running = {}
    /\ Len(enrollments) + Cardinality(Running) < MaxEnrollments
    /\ threads' = [threads EXCEPT
                      !.call[t] = [pc |-> "find_student",
                                   student_id |-> student_id,
                                   course_id |-> course_id,
                                   result |-> Return(None)]]
    /\ UNCHANGED <<students, courses, enrollments, last>>

\* Rule 1: the student lookup and its test.
FindStudent(t) ==
    LET call == threads.call[t]
    IN  /\ call.pc = "find_student"
        /\ threads' =
               IF StudentRepository_find_by_id(students, call.student_id) = None
               THEN Finish(t, StudentNotFound(call.student_id))
               ELSE Goto(t, "find_course")
        /\ UNCHANGED <<students, courses, enrollments, last>>

\* Rule 2: the course lookup and its test.
FindCourse(t) ==
    LET call == threads.call[t]
    IN  /\ call.pc = "find_course"
        /\ threads' =
               IF CourseRepository_find_by_id(courses, call.course_id) = None
               THEN Finish(t, CourseNotFound(call.course_id))
               ELSE Goto(t, "check")
        /\ UNCHANGED <<students, courses, enrollments, last>>

\* Rule 3: the credit test.  threads.raced records that the test was passed
\* while another call for the same student had passed it and not yet added
\* its credits.
CheckLimit(t) ==
    LET call == threads.call[t]
        between == \E u \in Threads \ {t} :
                       /\ threads.call[u].student_id = call.student_id
                       /\ threads.call[u].pc \in {"save_enrollment",
                                                   "add_credits"}
    IN  /\ call.pc = "check"
        /\ threads' =
               IF exceeds_credit_limit(students[call.student_id],
                                       courses[call.course_id])
               THEN Finish(t, CreditLimitExceeded)
               ELSE [Goto(t, "save_enrollment") EXCEPT
                        !.raced = threads.raced \/ between]
        /\ UNCHANGED <<students, courses, enrollments, last>>

\* The enrollment is created and saved.
SaveEnrollment(t) ==
    LET call == threads.call[t]
    IN  /\ call.pc = "save_enrollment"
        /\ enrollments' =
               EnrollmentRepository_save(
                   enrollments, Enrollment(call.student_id, call.course_id))
        /\ threads' = Goto(t, "add_credits")
        /\ UNCHANGED <<students, courses, last>>

\* student.add_credits(course.credits), on the stored student.
AddCredits(t) ==
    LET call == threads.call[t]
    IN  /\ call.pc = "add_credits"
        /\ students' =
               [students EXCEPT
                   ![call.student_id] =
                       add_credits(@, courses[call.course_id].credits)]
        /\ threads' = Goto(t, "save_student")
        /\ UNCHANGED <<courses, enrollments, last>>

\* The student is saved, and enroll returns the enrollment.
SaveStudent(t) ==
    LET call == threads.call[t]
    IN  /\ call.pc = "save_student"
        /\ students' =
               StudentRepository_save(students, students[call.student_id])
        /\ threads' =
               Finish(t, Return(Enrollment(call.student_id, call.course_id)))
        /\ UNCHANGED <<courses, enrollments, last>>

\* The stores set up, both callers idle, with or without synchronization.
ConcurrentInit ==
    /\ students \in StudentStores
    /\ courses \in CourseStores
    /\ enrollments = <<>>
    /\ last = Call("init", "", "", Return(None), <<>>)
    /\ threads \in {[sync |-> b, raced |-> FALSE,
                      call |-> [t \in Threads |-> Idle(Return(None))]]
                     : b \in BOOLEAN}

ConcurrentNext ==
    \/ \E t \in Threads, s \in StudentIds, c \in CourseIds : Begin(t, s, c)
    \/ \E t \in Threads : FindStudent(t)
    \/ \E t \in Threads : FindCourse(t)
    \/ \E t \in Threads : CheckLimit(t)
    \/ \E t \in Threads : SaveEnrollment(t)
    \/ \E t \in Threads : AddCredits(t)
    \/ \E t \in Threads : SaveStudent(t)

ConcurrentSpec == ConcurrentInit /\ [][ConcurrentNext]_vars

(* ------------------------------- claims ------------------------------- *)

\* The step is a call enroll(s, c).
EnrollStep(s, c) ==
    last'.op = "enroll" /\ last'.student_id = s /\ last'.course_id = c

\* The call just made was enroll, and it returned.
EnrollReturned == last.op = "enroll" /\ last.result.kind = "return"

\* The call just made was enroll, and it raised result r.
EnrollRaised(r) == last.op = "enroll" /\ last.result = r

\* The sequence seq holds x.
Holds(seq, x) == \E i \in 1..Len(seq) : seq[i] = x

\* C1: whatever calls were made, every stored student has
\* current_credits <= max_credits.
C1_CreditLimitInvariant ==
    \A s \in DOMAIN students :
        students[s].current_credits <= students[s].max_credits

\* C1 witness: enroll returned and left its student with credits, and the
\* other student is stored with credits too.
C1_Witness ==
    /\ EnrollReturned
    /\ DOMAIN students = StudentIds
    /\ \A s \in StudentIds : students[s].current_credits > 0

\* C2: enroll(S, C) for a stored S and a stored C with
\* S.current_credits + C.credits <= S.max_credits returns
\* Enrollment(S, C) with grade 0, appends that one record to the enrollment
\* store, which find_by_student_and_course then finds, and adds exactly
\* C.credits to S.current_credits.
C2_EnrollSuccess ==
    [][\A s \in StudentIds, c \in CourseIds :
          (/\ EnrollStep(s, c)
           /\ s \in DOMAIN students
           /\ c \in DOMAIN courses
           /\ students[s].current_credits + courses[c].credits
                  <= students[s].max_credits)
          => /\ last'.result = Return([student_id |-> s, course_id |-> c,
                                       grade |-> 0])
             /\ Len(enrollments') = Len(enrollments) + 1
             /\ SubSeq(enrollments', 1, Len(enrollments)) = enrollments
             /\ enrollments'[Len(enrollments')] =
                    [student_id |-> s, course_id |-> c, grade |-> 0]
             /\ EnrollmentRepository_find_by_student_and_course(
                    enrollments', s, c) # None
             /\ students'[s].current_credits =
                    students[s].current_credits + courses[c].credits
      ]_vars

\* C2 witness: enroll returned for a student who already had credits, and
\* the store holds two records.
C2_Witness ==
    /\ EnrollReturned
    /\ Len(enrollments) = 2
    /\ students[last.student_id].current_credits
           > courses[last.course_id].credits

\* C3: an enroll that raises leaves the student store, the course store and
\* the enrollment store as they were, and calls no save.
C3_FailedEnrollChangesNothing ==
    [][(last'.op = "enroll" /\ last'.result.kind = "raise")
          => /\ last'.result \in {StudentNotFound(last'.student_id),
                                  CourseNotFound(last'.course_id),
                                  CreditLimitExceeded}
             /\ students' = students
             /\ courses' = courses
             /\ enrollments' = enrollments
             /\ ~Holds(last'.calls, "enrollment_repository.save")
             /\ ~Holds(last'.calls, "student_repository.save")
      ]_vars

\* C3 witness: enroll raised the credit-limit error with records stored.
C3_Witness ==
    /\ EnrollRaised(CreditLimitExceeded)
    /\ Len(enrollments) > 0

\* C4: for a stored S and a stored C, enroll(S, C) raises the credit-limit
\* error exactly when S.current_credits + C.credits > S.max_credits, and
\* then S.current_credits and the enrollment store are as they were.
C4_CreditLimitExceededIff ==
    [][\A s \in StudentIds, c \in CourseIds :
          (EnrollStep(s, c) /\ s \in DOMAIN students /\ c \in DOMAIN courses)
          => /\ (last'.result = CreditLimitExceeded)
                    <=> (students[s].current_credits + courses[c].credits
                            > students[s].max_credits)
             /\ (last'.result = CreditLimitExceeded)
                    => /\ students'[s].current_credits
                             = students[s].current_credits
                       /\ enrollments' = enrollments
      ]_vars

\* C4 witness: enroll raised the credit-limit error for a student below the
\* maximum, the sum being one over it.
C4_Witness ==
    /\ EnrollRaised(CreditLimitExceeded)
    /\ students[last.student_id].current_credits
           < students[last.student_id].max_credits
    /\ students[last.student_id].current_credits
           + courses[last.course_id].credits
           = students[last.student_id].max_credits + 1

\* C5: enroll(s, c) for a student id s that is not stored raises the
\* student-not-found error citing s, whether c is stored or not, having
\* called neither the course store's find_by_id nor any save.
C5_UnknownStudentFirst ==
    [][\A s \in StudentIds, c \in CourseIds :
          (EnrollStep(s, c) /\ s \notin DOMAIN students)
          => /\ last'.result = StudentNotFound(s)
             /\ ~Holds(last'.calls, "course_repository.find_by_id")
             /\ ~Holds(last'.calls, "enrollment_repository.save")
             /\ ~Holds(last'.calls, "student_repository.save")
      ]_vars

\* C5 witness: enroll raised student-not-found, the course id being unknown
\* too.
C5_Witness ==
    /\ EnrollRaised(StudentNotFound(last.student_id))
    /\ last.student_id \notin DOMAIN students
    /\ last.course_id \notin DOMAIN courses

\* C6: enroll(S, c) for a stored S, whatever its credits, and a course id c
\* that is not stored raises the course-not-found error citing c, not the
\* credit-limit error; no enrollment is saved and S.current_credits is as it
\* was.
C6_UnknownCourseSecond ==
    [][\A s \in StudentIds, c \in CourseIds :
          (EnrollStep(s, c) /\ s \in DOMAIN students /\ c \notin DOMAIN courses)
          => /\ last'.result = CourseNotFound(c)
             /\ last'.result # CreditLimitExceeded
             /\ ~Holds(last'.calls, "enrollment_repository.save")
             /\ enrollments' = enrollments
             /\ students'[s].current_credits = students[s].current_credits
      ]_vars

\* C6 witness: enroll raised course-not-found for a student who is at
\* max_credits.
C6_Witness ==
    /\ EnrollRaised(CourseNotFound(last.course_id))
    /\ last.course_id \notin DOMAIN courses
    /\ students[last.student_id].current_credits
           = students[last.student_id].max_credits

\* C7: an enroll whose sum S.current_credits + C.credits equals
\* S.max_credits returns and leaves S at max_credits; an enroll of a student
\* at max_credits in a stored course of at least one credit raises the
\* credit-limit error.
C7_Boundary ==
    [][\A s \in StudentIds, c \in CourseIds :
          (EnrollStep(s, c) /\ s \in DOMAIN students /\ c \in DOMAIN courses)
          => /\ (students[s].current_credits + courses[c].credits
                     = students[s].max_credits)
                    => /\ last'.result.kind = "return"
                       /\ students'[s].current_credits
                              = students'[s].max_credits
             /\ (/\ students[s].current_credits = students[s].max_credits
                 /\ courses[c].credits >= 1)
                    => last'.result = CreditLimitExceeded
      ]_vars

\* C7 witness: enroll raised the credit-limit error for a student whom
\* earlier enrollments brought to exactly max_credits.
C7_Witness ==
    /\ EnrollRaised(CreditLimitExceeded)
    /\ students[last.student_id].current_credits
           = students[last.student_id].max_credits
    /\ \E i \in 1..Len(enrollments) :
           enrollments[i].student_id = last.student_id

\* The step is a call calculate_gpa(s).
GpaStep(s) == last'.op = "calculate_gpa" /\ last'.student_id = s

\* The positions in the enrollment store of the records of student s.
Of(s) == {i \in 1..Len(enrollments) : enrollments[i].student_id = s}

\* Those of them whose course is stored.
Found(s) == {i \in Of(s) : enrollments[i].course_id \in DOMAIN courses}

\* The sum of grade * credits over the positions I.
RECURSIVE SumPoints(_)
SumPoints(I) ==
    IF I = {} THEN 0
    ELSE LET i == CHOOSE x \in I : TRUE
         IN enrollments[i].grade * courses[enrollments[i].course_id].credits
                + SumPoints(I \ {i})

\* The sum of credits over the positions I.
RECURSIVE SumCredits(_)
SumCredits(I) ==
    IF I = {} THEN 0
    ELSE LET i == CHOOSE x \in I : TRUE
         IN courses[enrollments[i].course_id].credits + SumCredits(I \ {i})

\* C8: calculate_gpa(s) for a student id s that is not stored raises the
\* student-not-found error citing s, whatever records the enrollment store
\* holds for s, and does not query the enrollment store.
C8_GpaUnknownStudent ==
    [][\A s \in StudentIds :
          (GpaStep(s) /\ s \notin DOMAIN students)
          => /\ last'.result = StudentNotFound(s)
             /\ ~Holds(last'.calls, "enrollment_repository.find_by_student_id")
      ]_vars

\* C8 witness: calculate_gpa raised student-not-found for an id the
\* enrollment store holds a record of.
C8_Witness ==
    /\ last.op = "calculate_gpa"
    /\ last.result = StudentNotFound(last.student_id)
    /\ Of(last.student_id) # {}

\* C9: for a stored student calculate_gpa returns; when one of the
\* student's enrollments has its course stored, the value is
\* sum(grade * credits) / sum(credits) over exactly those enrollments, with
\* the grades they now carry.
C9_GpaWeightedMean ==
    [][\A s \in StudentIds :
          (GpaStep(s) /\ s \in DOMAIN students)
          => /\ last'.result.kind = "return"
             /\ Found(s) # {}
                    => /\ last'.result.value.den > 0
                       /\ last'.result.value.num * SumCredits(Found(s))
                              = SumPoints(Found(s)) * last'.result.value.den
      ]_vars

\* C9 witness: calculate_gpa returned for a student with two enrollments of
\* different grades in stored courses of different credits.
C9_Witness ==
    /\ last.op = "calculate_gpa"
    /\ last.result.kind = "return"
    /\ \E i, j \in Found(last.student_id) :
           /\ enrollments[i].grade # enrollments[j].grade
           /\ courses[enrollments[i].course_id].credits
                  # courses[enrollments[j].course_id].credits

\* C10: for a stored student calculate_gpa returns 0.0 when the student has
\* no enrollment, then without a course lookup, and when the credits of the
\* enrollments whose course is stored sum to zero; otherwise it returns the
\* quotient of the two sums.
C10_GpaZeroCases ==
    [][\A s \in StudentIds :
          (GpaStep(s) /\ s \in DOMAIN students)
          => /\ Of(s) = {}
                    => /\ last'.result = Return(Zero)
                       /\ ~Holds(last'.calls, "course_repository.find_by_id")
             /\ SumCredits(Found(s)) = 0 => last'.result = Return(Zero)
             /\ SumCredits(Found(s)) # 0
                    => last'.result =
                           Return(Quotient(SumPoints(Found(s)),
                                           SumCredits(Found(s))))
      ]_vars

\* C10 witness: calculate_gpa returned 0.0 for a student all of whose
\* enrollments, one of them graded, are in courses that are not stored.
C10_Witness ==
    /\ last.op = "calculate_gpa"
    /\ last.result = Return(Zero)
    /\ Of(last.student_id) # {}
    /\ Found(last.student_id) = {}
    /\ \E i \in Of(last.student_id) : enrollments[i].grade > 0

\* The sequence seq holds the pieces of run, one after the other.
HoldsRun(seq, run) ==
    \E i \in 1..(Len(seq) - Len(run) + 1) :
        SubSeq(seq, i, i + Len(run) - 1) = run

\* The call just made was one of the controller's.
ControllerCall == last.op \in {"enroll_student", "get_student_gpa"}

\* C11 as stated: every string the controller returns starts with SUCCESS:
\* or ERROR:.
C11_EveryStringPrefixed ==
    ControllerCall
    => /\ last.result.kind = "return"
       /\ Head(last.result.value) \in {"SUCCESS:", "ERROR:"}

\* C11 amended: every string enroll_student returns, and the string
\* get_student_gpa returns for a student that is not stored, starts with
\* SUCCESS: or ERROR:; the string get_student_gpa returns for a stored
\* student starts with "GPA for student ".
C11_PrefixedButGpa ==
    /\ ControllerCall => last.result.kind = "return"
    /\ last.op = "enroll_student"
           => Head(last.result.value) \in {"SUCCESS:", "ERROR:"}
    /\ (last.op = "get_student_gpa" /\ last.student_id \notin DOMAIN students)
           => Head(last.result.value) = "ERROR:"
    /\ (last.op = "get_student_gpa" /\ last.student_id \in DOMAIN students)
           => Head(last.result.value) = "GPA for student "

\* C11 witness: get_student_gpa returned the GPA string of a student with a
\* graded enrollment.
C11_Witness ==
    /\ last.op = "get_student_gpa"
    /\ Head(last.result.value) = "GPA for student "
    /\ \E i \in 1..Len(enrollments) :
           /\ enrollments[i].student_id = last.student_id
           /\ enrollments[i].grade > 0

\* C12: the controller returns a string whatever enroll or calculate_gpa
\* does.  enroll_student(s, c) returns the SUCCESS string, holding s and c,
\* exactly when enroll(s, c) returns, and otherwise ERROR: followed by the
\* message of what enroll raised; get_student_gpa(s) returns a string
\* holding "GPA for student <s>:" exactly when calculate_gpa(s) returns, and
\* an ERROR string when s is not stored.  The stores are left as the call
\* of the service leaves them.
C12_ControllerNeverRaises ==
    [][/\ \A s \in StudentIds, c \in CourseIds :
            (/\ last'.op = "enroll_student"
             /\ last'.student_id = s
             /\ last'.course_id = c)
            => LET e == enroll(s, c)
                   str == last'.result.value
               IN  /\ last'.result.kind = "return"
                   /\ (e.result.kind = "return") <=> (Head(str) = "SUCCESS:")
                   /\ (e.result.kind = "return")
                          => (Holds(str, s) /\ Holds(str, c))
                   /\ (e.result.kind = "raise")
                          => /\ Head(str) = "ERROR:"
                             /\ HoldsRun(str, e.result.msg)
                   /\ students' = e.students
                   /\ enrollments' = e.enrollments
                   /\ courses' = courses
       /\ \A s \in StudentIds :
            (last'.op = "get_student_gpa" /\ last'.student_id = s)
            => LET g == calculate_gpa(s)
                   str == last'.result.value
               IN  /\ last'.result.kind = "return"
                   /\ (g.result.kind = "return")
                          <=> HoldsRun(str, <<"GPA for student ", s, ":">>)
                   /\ s \notin DOMAIN students => Head(str) = "ERROR:"
                   /\ students' = students
                   /\ enrollments' = enrollments
                   /\ courses' = courses
      ]_vars

\* C12 witness: enroll_student returned the ERROR string of the credit-limit
\* error, a RuntimeError.
C12_Witness ==
    /\ last.op = "enroll_student"
    /\ last.result = Return(<<"ERROR:", " ",
                              "Student exceeds maximum credit limit">>)

\* The positions in store of the records of student s.
Matching(store, s) == {i \in 1..Len(store) : store[i].student_id = s}

\* Those of them that are of course c.
MatchingBoth(store, s, c) == {i \in Matching(store, s) : store[i].course_id = c}

\* The least of a non-empty set of positions.
Least(I) == CHOOSE i \in I : \A j \in I : i <= j

\* find_by_student_id gives the records of the student, each once, in the
\* order of their positions; find_by_student_and_course gives the record at
\* the least matching position, or None.
QueryContract(store) ==
    \A s \in StudentIds :
        /\ LET r == EnrollmentRepository_find_by_student_id(store, s)
               I == Matching(store, s)
           IN  /\ Len(r) = Cardinality(I)
               /\ \A i \in I :
                      r[Cardinality({j \in I : j <= i})] = store[i]
        /\ \A c \in CourseIds :
              LET J == MatchingBoth(store, s, c)
                  e == EnrollmentRepository_find_by_student_and_course(
                           store, s, c)
              IN  IF J = {} THEN e = None ELSE e = store[Least(J)]

\* C13: a save puts its enrollment after those saved before, and after any
\* saves find_by_student_id(id) is exactly the saved enrollments of id in
\* the order saved (empty when there is none) and
\* find_by_student_and_course(sid, cid) the earliest saved one matching
\* both, or None.
C13_EnrollmentQueries ==
    [][/\ QueryContract(enrollments')
       /\ last'.op = "enrollment_repository.save"
              => enrollments' = enrollments \o <<last'.result.value>>
      ]_vars

\* C13 witness: a save added a second record of a pair whose first record
\* is graded, and find_by_student_and_course finds the graded one.
C13_Witness ==
    /\ last.op = "enrollment_repository.save"
    /\ Cardinality(MatchingBoth(enrollments, last.student_id,
                                last.course_id)) = 2
    /\ EnrollmentRepository_find_by_student_and_course(
           enrollments, last.student_id, last.course_id).grade > 0
    /\ enrollments[Len(enrollments)].grade = 0

\* What save(e) does to a keyed store, before and after.
Upsert(before, after, e, Ids) ==
    /\ DictGet(after, e.id) = e
    /\ e.id \in DOMAIN before
           => Cardinality(DOMAIN after) = Cardinality(DOMAIN before)
    /\ e.id \notin DOMAIN before
           => Cardinality(DOMAIN after) = Cardinality(DOMAIN before) + 1
    /\ \A o \in Ids \ {e.id} : DictGet(after, o) = DictGet(before, o)

\* C14: after save(e) on the student store or on the course store,
\* find_by_id(e.id) is e; a save of an id already stored replaces the entity
\* and keeps the number stored, a save of a new id adds one; the entities
\* under other ids are as they were; and an id stays absent until a save
\* of it.
C14_KeyedStoreUpsert ==
    [][/\ last'.op = "student_repository.save"
              => /\ Upsert(students, students', last'.result.value, StudentIds)
                 /\ StudentRepository_find_by_id(
                        students', last'.student_id) = last'.result.value
       /\ last'.op = "course_repository.save"
              => /\ Upsert(courses, courses', last'.result.value, CourseIds)
                 /\ CourseRepository_find_by_id(
                        courses', last'.course_id) = last'.result.value
       /\ \A id \in StudentIds :
              (/\ StudentRepository_find_by_id(students, id) = None
               /\ ~(last'.op = "student_repository.save"
                       /\ last'.student_id = id))
              => StudentRepository_find_by_id(students', id) = None
       /\ \A id \in CourseIds :
              (/\ CourseRepository_find_by_id(courses, id) = None
               /\ ~(last'.op = "course_repository.save"
                       /\ last'.course_id = id))
              => CourseRepository_find_by_id(courses', id) = None
      ]_vars

\* C14 witness: a course save on the one id the course store has ever
\* held left it with two credits, while a student has the one credit that
\* an enroll in that course gave before: the save replaced the course.
C14_Witness ==
    /\ last.op = "course_repository.save"
    /\ DOMAIN courses = {last.course_id}
    /\ courses[last.course_id].credits = 2
    /\ \E t \in DOMAIN students : students[t].current_credits = 1

\* C15: enroll makes no check of uniqueness: enroll(S, C) for a stored pair
\* within the credit limit that the enrollment store already holds a record
\* of returns, adds one more record of the pair and adds C.credits to
\* S.current_credits again.
C15_DuplicatesAccepted ==
    [][\A s \in StudentIds, c \in CourseIds :
          (/\ EnrollStep(s, c)
           /\ s \in DOMAIN students
           /\ c \in DOMAIN courses
           /\ students[s].current_credits + courses[c].credits
                  <= students[s].max_credits
           /\ MatchingBoth(enrollments, s, c) # {})
          => /\ last'.result.kind = "return"
             /\ Cardinality(MatchingBoth(enrollments', s, c))
                    = Cardinality(MatchingBoth(enrollments, s, c)) + 1
             /\ students'[s].current_credits
                    = students[s].current_credits + courses[c].credits
      ]_vars

\* C15 witness: enroll returned, the store holds two records of its pair,
\* and the student has twice the course's credits.
C15_Witness ==
    /\ EnrollReturned
    /\ Cardinality(MatchingBoth(enrollments, last.student_id,
                                last.course_id)) = 2
    /\ students[last.student_id].current_credits
           = 2 * courses[last.course_id].credits

\* C16: an enroll(S, C) that returns changes S.current_credits and appends
\* one enrollment, and nothing else: the other students, S.max_credits, the
\* courses and the enrollments stored before, each at its position, are as
\* they were, and so is find_by_student_id of every other student.
C16_EnrollIsolation ==
    [][\A s \in StudentIds, c \in CourseIds :
          (EnrollStep(s, c) /\ last'.result.kind = "return")
          => /\ DOMAIN students' = DOMAIN students
             /\ \A t \in DOMAIN students \ {s} : students'[t] = students[t]
             /\ students'[s].max_credits = students[s].max_credits
             /\ students'[s].id = students[s].id
             /\ courses' = courses
             /\ Len(enrollments') = Len(enrollments) + 1
             /\ SubSeq(enrollments', 1, Len(enrollments)) = enrollments
             /\ \A t \in StudentIds \ {s} :
                    EnrollmentRepository_find_by_student_id(enrollments', t)
                        = EnrollmentRepository_find_by_student_id(
                              enrollments, t)
      ]_vars

\* C16 witness: enroll returned while the other student has credits and a
\* graded enrollment.
C16_Witness ==
    /\ EnrollReturned
    /\ \E t \in DOMAIN students \ {last.student_id} :
           /\ students[t].current_credits > 0
           /\ \E i \in Matching(enrollments, t) : enrollments[i].grade > 0

\* The sum of the credits of the courses of the records at positions I.
RECURSIVE CreditsOf(_)
CreditsOf(I) ==
    IF I = {} THEN 0
    ELSE LET i == CHOOSE x \in I : TRUE
         IN courses[enrollments[i].course_id].credits + CreditsOf(I \ {i})

\* The step is a call of enroll for student s that returned, made directly
\* or by enroll_student.
EnrolledStep(s) ==
    /\ last'.student_id = s
    /\ \/ last'.op = "enroll" /\ last'.result.kind = "return"
       \/ last'.op = "enroll_student" /\ Head(last'.result.value) = "SUCCESS:"

\* C17: with the stores set up and then only the service called, each
\* student's current_credits is the sum of the credits of the courses of the
\* student's records in the enrollment store, a pair counted as often as it
\* is stored; and the number of the student's records grows by one with
\* each enroll of the student that returns and with no other step, from
\* none at the start.
C17_CreditAccounting ==
    [][/\ \A s \in DOMAIN students' :
              students'[s].current_credits = CreditsOf(Matching(enrollments, s))'
       /\ \A s \in StudentIds :
              Cardinality(Matching(enrollments', s))
                  = Cardinality(Matching(enrollments, s))
                        + (IF EnrolledStep(s) THEN 1 ELSE 0)
      ]_vars

\* C17 witness: enroll returned for a student who now has two records, in
\* courses of one and of two credits, and three credits.
C17_Witness ==
    /\ EnrollReturned
    /\ Cardinality(Matching(enrollments, last.student_id)) = 2
    /\ \E i, j \in Matching(enrollments, last.student_id) :
           courses[enrollments[i].course_id].credits
               # courses[enrollments[j].course_id].credits
    /\ students[last.student_id].current_credits = 3

\* C18: over the calls of the service and of the controller, and the
\* grading of enrollments, a record stays at its position with its
\* student_id and course_id and the store never gets shorter, no stored
\* student is lost, no current_credits decreases and no max_credits changes.
C18_Monotonic ==
    [][/\ Len(enrollments') >= Len(enrollments)
       /\ \A i \in 1..Len(enrollments) :
              /\ enrollments'[i].student_id = enrollments[i].student_id
              /\ enrollments'[i].course_id = enrollments[i].course_id
       /\ DOMAIN students' = DOMAIN students
       /\ \A s \in DOMAIN students :
              /\ students'[s].current_credits >= students[s].current_credits
              /\ students'[s].max_credits = students[s].max_credits
      ]_vars

\* C18 witness: enroll_student returned SUCCESS with an earlier enrollment,
\* since graded, still first in the store.
C18_Witness ==
    /\ last.op = "enroll_student"
    /\ Head(last.result.value) = "SUCCESS:"
    /\ Len(enrollments) = 2
    /\ enrollments[1].grade > 0

\* C19: calculate_gpa and get_student_gpa, returning or raising, leave the
\* three stores as they were, and the same call made again straight away
\* gives the same result.
C19_GpaReadOnly ==
    [][last'.op \in {"calculate_gpa", "get_student_gpa"}
          => /\ students' = students
             /\ courses' = courses
             /\ enrollments' = enrollments
             /\ (last.op = last'.op /\ last.student_id = last'.student_id)
                    => last'.result = last.result
      ]_vars

\* C19 witness: calculate_gpa returned a GPA above zero, a grade being
\* stored for a course of two credits.
C19_Witness ==
    /\ last.op = "calculate_gpa"
    /\ last.result.kind = "return"
    /\ last.result.value.num > 0
    /\ \E i \in Matching(enrollments, last.student_id) :
           /\ enrollments[i].grade > 0
           /\ courses[enrollments[i].course_id].credits = 2

\* Some stored student has more than max_credits.
OverLimit ==
    \E s \in DOMAIN students :
        students[s].current_credits > students[s].max_credits

\* C20: when every enroll runs as a whole, no student ever has more than
\* max_credits; a student has more only when the calls were interleaved
\* and one passed the credit test while another call for the same student
\* had passed it and not yet added its credits.
C20_SynchronizationNeeded ==
    /\ threads.sync => ~OverLimit
    /\ threads.sync => ~threads.raced
    /\ OverLimit => threads.raced

\* C20 witness: without synchronization two calls of enroll for one student
\* both returned and left the student over max_credits.
C20_Witness ==
    /\ ~threads.sync
    /\ Running = {}
    /\ \A t \in Threads : /\ threads.call[t].result.kind = "return"
                          /\ threads.call[t].result.value # None
    /\ threads.call[1].result.value.student_id
           = threads.call[2].result.value.student_id
    /\ LET s == threads.call[1].result.value.student_id
       IN  students[s].current_credits > students[s].max_credits

=============================================================================
